---- MODULE Spec2Model ----
(***************************************************************************)
(* Model of fslash/collections/seq.py: the curried sequence combinators    *)
(* (map, filter, fold, fold_back, scan, zip, head, iter, min, max, min_by, *)
(* max_by, init_infinite) over Python iterables.                           *)
(*                                                                         *)
(* One behaviour evaluates one combinator on inputs chosen in Init.  An    *)
(* eager combinator is one action (the whole call).  A lazy combinator is  *)
(* a construction action followed by one action per next() of the          *)
(* consumer.  Every invocation of a caller-supplied function is logged in  *)
(* calls, every invocation of an init_infinite initializer in initCalls,   *)
(* and every outcome the consumer receives from next() in out.             *)
(***************************************************************************)
EXTENDS Integers, Sequences, FiniteSets, TLC

\* ------------------------------------------------------------------ bounds
MaxLen == 3         \* longest finite source
MaxElem == 2        \* elements of finite sources are 0..MaxElem
MaxPulls == 5       \* next() calls made by the consumer
MaxState == 1       \* integer initial states are 0..MaxState

\* ------------------------------------------------------- Python outcomes
\* A value, or the way a call ended.  "raise" is an exception thrown by a
\* caller-supplied function; ValueError and TypeError are raised by the
\* library or the builtins it calls.
Val(v) == [tag |-> "value", val |-> v]
NoneVal == [tag |-> "None", val |-> 0]
Raised == [tag |-> "raise", val |-> 0]
StopIteration == [tag |-> "StopIteration", val |-> 0]
ValueError == [tag |-> "ValueError", val |-> 0]
TypeError == [tag |-> "TypeError", val |-> 0]
NULL == [tag |-> "NULL", val |-> 0]
NoResult == [tag |-> "pending", val |-> 0]

NoFail == 0 - 1     \* failOn value of a supplied function that never raises

\* ---------------------------------------------------------------- inputs
Elems == 0 .. MaxElem

RECURSIVE SeqsUpTo(_)
SeqsUpTo(n) ==
  IF n = 0 THEN {<<>>}
  ELSE LET shorter == SeqsUpTo(n - 1)
       IN shorter \cup {Append(s, e) : s \in {t \in shorter : Len(t) = n - 1}, e \in Elems}

Initializers == {"index", "affine"}

\* the initializer passed to init_infinite
Initializer(name, i) == IF name = "index" THEN i ELSE 2 * i + 1

\* "list": a materialized list; "gen": a generator (e.g. the result of
\* concat or map); "seq": a Seq wrapper around a list; "inf": the generator
\* returned by init_infinite(initializer).
FiniteKinds == {"list", "gen", "seq"}

FiniteSources == [kind : FiniteKinds, items : SeqsUpTo(MaxLen), init : {"none"}]

InfiniteSources == [kind : {"inf"}, items : {<<>>}, init : Initializers]

Sources == FiniteSources \cup InfiniteSources

EmptyList == [kind |-> "list", items |-> <<>>, init |-> "none"]

InitialStates == {NoneVal} \cup {Val(v) : v \in 0 .. MaxState}

\* caller-supplied functions
Unary == {"succ", "double", "neg"}
Preds == {"even", "pos"}
BinOps == {"add", "sub", "pack"}

Apply(f, x) ==
  CASE f = "succ" -> x + 1
    [] f = "double" -> 2 * x
    [] f = "neg" -> 0 - x

Pred(p, x) == IF p = "even" THEN x % 2 = 0 ELSE x > 0

BinOp(f, first, second) ==
  CASE f = "add" -> first + second
    [] f = "sub" -> first - second
    [] f = "pack" -> 10 * first + second

\* One invocation of a supplied binary function on element x.  It raises
\* when told to fail on x, and (being arithmetic) when an operand is None.
CallBin(f, first, second, x, fail) ==
  IF x = fail \/ first.tag = "None" \/ second.tag = "None"
  THEN Raised
  ELSE Val(BinOp(f, first.val, second.val))

Ops == {"head", "min", "max", "min_by", "max_by", "fold", "fold_back", "iter",
        "map", "filter", "scan", "zip", "init_infinite"}

\* combinators that return without exhausting their source
InfOps == {"head", "map", "scan", "zip", "init_infinite"}

FnsOf(o) ==
  CASE o \in {"map", "min_by", "max_by"} -> Unary
    [] o = "filter" -> Preds
    [] o \in {"fold", "fold_back", "scan"} -> BinOps
    [] OTHER -> {"none"}

FailOps == {"map", "filter", "fold", "fold_back", "iter", "scan", "min_by", "max_by"}

\* ----------------------------------------------------------------- state
VARIABLES
  op,            \* the combinator under evaluation
  source,        \* its source (source1 of zip)
  source2,       \* source2 of zip
  fn,            \* the supplied mapper / predicate / folder / projection
  failOn,        \* the element on which the supplied function raises
  initialState,  \* initial state of fold, fold_back, scan
  pos,           \* elements consumed so far from source's iterator
  pos2,          \* elements consumed so far from source2's iterator
  gen,           \* lazy result: "unbuilt", "live" or "finished"
  initial,       \* itertools.accumulate: the pending initial value
  total,         \* itertools.accumulate: the running total
  calls,         \* arguments the supplied function was invoked on, in order
  initCalls,     \* indices the initializers were invoked on, in order
  out,           \* outcomes of the consumer's next() calls, in order
  iterNo,        \* iterations of the sequence begun by the consumer
  outStart,      \* Len(out) when the latest iteration began
  result         \* outcome of an eager combinator

vars == <<op, source, source2, fn, failOn, initialState, pos, pos2, gen,
          initial, total, calls, initCalls, out, iterNo, outStart, result>>

inputs == <<op, source, source2, fn, failOn, initialState>>

Init ==
  /\ op \in Ops
  /\ source \in Sources
  /\ source.kind = "inf" => op \in InfOps
  /\ op = "init_infinite" => source.kind = "inf"
  /\ source2 \in (IF op = "zip" THEN Sources ELSE {EmptyList})
  /\ fn \in FnsOf(op)
  /\ failOn \in (IF op \in FailOps THEN {NoFail} \cup Elems ELSE {NoFail})
  /\ initialState \in (IF op \in {"fold", "fold_back", "scan"} THEN InitialStates ELSE {NoneVal})
  /\ pos = 0
  /\ pos2 = 0
  /\ gen = "unbuilt"
  /\ initial = NoneVal
  /\ total = NULL
  /\ calls = <<>>
  /\ initCalls = <<>>
  /\ out = <<>>
  /\ iterNo = 0
  /\ outStart = 0
  /\ result = NoResult

\* ------------------------------------------------------ source iteration
\* next() of a source iterator that has consumed p elements
HasNext(s, p) == IF s.kind = "inf" THEN TRUE ELSE p < Len(s.items)

Elem(s, p) == IF s.kind = "inf" THEN Initializer(s.init, p) ELSE s.items[p + 1]

\* the initializer invocation caused by pulling element p of source number n
InitLog(s, n, p) == IF s.kind = "inf" THEN <<[src |-> n, index |-> p]>> ELSE <<>>

\* ------------------------------------------------------ eager: head
\* variant: looks one element ahead before returning the first
head_lookahead ==
  /\ op = "head"
  /\ result = NoResult
  /\ IF HasNext(source, pos)
     THEN /\ result' = Val(Elem(source, pos))
          /\ initCalls' = initCalls \o InitLog(source, 1, pos) \o InitLog(source, 1, pos + 1)
          /\ pos' = pos + 2
     ELSE /\ result' = ValueError
          /\ UNCHANGED <<initCalls, pos>>
  /\ UNCHANGED <<inputs, pos2, gen, initial, total, calls, out, iterNo, outStart>>

head ==
  /\ op = "head"
  /\ result = NoResult
  /\ IF HasNext(source, pos)
     THEN /\ result' = Val(Elem(source, pos))
          /\ initCalls' = initCalls \o InitLog(source, 1, pos)
          /\ pos' = pos + 1
     ELSE /\ result' = ValueError
          /\ UNCHANGED <<initCalls, pos>>
  /\ UNCHANGED <<inputs, pos2, gen, initial, total, calls, out, iterNo, outStart>>

\* ------------------------------------------- eager: min, max, min_by, max_by
\* builtins.min / builtins.max of a non-empty sequence of integers; the
\* first of several equal candidates is kept
RECURSIVE BuiltinMin(_)
BuiltinMin(s) ==
  IF Len(s) = 1 THEN s[1]
  ELSE LET m == BuiltinMin(SubSeq(s, 1, Len(s) - 1))
       IN IF s[Len(s)] < m THEN s[Len(s)] ELSE m

RECURSIVE BuiltinMax(_)
BuiltinMax(s) ==
  IF Len(s) = 1 THEN s[1]
  ELSE LET m == BuiltinMax(SubSeq(s, 1, Len(s) - 1))
       IN IF s[Len(s)] > m THEN s[Len(s)] ELSE m

\* index of the first element on which the supplied function raises, or 0
FirstFail(items, fail) ==
  IF \E i \in 1 .. Len(items) : items[i] = fail
  THEN CHOOSE i \in 1 .. Len(items) :
         /\ items[i] = fail
         /\ \A j \in 1 .. i - 1 : items[j] # fail
  ELSE 0

\* the elements a loop over items hands to the supplied function
Invoked(items, fail) ==
  IF FirstFail(items, fail) = 0 THEN items ELSE SubSeq(items, 1, FirstFail(items, fail))

\* the generator expression (projection(x) for x in source), drained
Projected(items, f) == [i \in 1 .. Len(items) |-> Apply(f, items[i])]

min ==
  /\ op = "min"
  /\ result = NoResult
  /\ result' = IF Len(source.items) = 0 THEN ValueError ELSE Val(BuiltinMin(source.items))
  /\ pos' = Len(source.items)
  /\ UNCHANGED <<inputs, pos2, gen, initial, total, calls, initCalls, out, iterNo, outStart>>

max ==
  /\ op = "max"
  /\ result = NoResult
  /\ result' = IF Len(source.items) = 0 THEN ValueError ELSE Val(BuiltinMax(source.items))
  /\ pos' = Len(source.items)
  /\ UNCHANGED <<inputs, pos2, gen, initial, total, calls, initCalls, out, iterNo, outStart>>

\* variant: builtins.min(..., default=None), no error on an empty source
min_by_default ==
  /\ op = "min_by"
  /\ result = NoResult
  /\ calls' = Invoked(source.items, failOn)
  /\ pos' = Len(calls')
  /\ result' = IF FirstFail(source.items, failOn) # 0 THEN Raised
               ELSE IF Len(source.items) = 0 THEN NoneVal
               ELSE Val(BuiltinMin(Projected(source.items, fn)))
  /\ UNCHANGED <<inputs, pos2, gen, initial, total, initCalls, out, iterNo, outStart>>

min_by ==
  /\ op = "min_by"
  /\ result = NoResult
  /\ calls' = Invoked(source.items, failOn)
  /\ pos' = Len(calls')
  /\ result' = IF FirstFail(source.items, failOn) # 0 THEN Raised
               ELSE IF Len(source.items) = 0 THEN ValueError
               ELSE Val(BuiltinMin(Projected(source.items, fn)))
  /\ UNCHANGED <<inputs, pos2, gen, initial, total, initCalls, out, iterNo, outStart>>

\* variant: builtins.max(source, key=projection), which returns the element
max_by_key ==
  /\ op = "max_by"
  /\ result = NoResult
  /\ calls' = Invoked(source.items, failOn)
  /\ pos' = Len(calls')
  /\ result' = IF FirstFail(source.items, failOn) # 0 THEN Raised
               ELSE IF Len(source.items) = 0 THEN ValueError
               ELSE Val(CHOOSE x \in Elems :
                          /\ \E i \in 1 .. Len(source.items) : source.items[i] = x
                          /\ Apply(fn, x) = BuiltinMax(Projected(source.items, fn)))
  /\ UNCHANGED <<inputs, pos2, gen, initial, total, initCalls, out, iterNo, outStart>>

max_by ==
  /\ op = "max_by"
  /\ result = NoResult
  /\ calls' = Invoked(source.items, failOn)
  /\ pos' = Len(calls')
  /\ result' = IF FirstFail(source.items, failOn) # 0 THEN Raised
               ELSE IF Len(source.items) = 0 THEN ValueError
               ELSE Val(BuiltinMax(Projected(source.items, fn)))
  /\ UNCHANGED <<inputs, pos2, gen, initial, total, initCalls, out, iterNo, outStart>>

\* ------------------------------------------------ eager: fold, fold_back, iter
\* functools.reduce(function, items, acc) from element i on.  swap is TRUE
\* for fold_back's lambda x, y: folder(y, x).
RECURSIVE Reduce(_, _, _, _, _, _)
Reduce(items, i, acc, f, swap, fail) ==
  IF i > Len(items) THEN [outcome |-> acc, called |-> <<>>]
  ELSE LET x == items[i]
           r == IF swap THEN CallBin(f, Val(x), acc, x, fail)
                        ELSE CallBin(f, acc, Val(x), x, fail)
       IN IF r.tag = "raise" THEN [outcome |-> r, called |-> <<x>>]
          ELSE LET rest == Reduce(items, i + 1, r, f, swap, fail)
               IN [rest EXCEPT !.called = <<x>> \o @]

\* variant: the list in its own order
Reversed_forward(items) == items

\* builtins.reversed of a list
Reversed(items) == [i \in 1 .. Len(items) |-> items[Len(items) + 1 - i]]

\* builtins.reversed accepts an object with __reversed__, or with __len__
\* and __getitem__: a list, but neither a generator nor a Seq
Reversible(s) == s.kind = "list"

fold ==
  /\ op = "fold"
  /\ result = NoResult
  /\ LET r == Reduce(source.items, 1, initialState, fn, FALSE, failOn)
     IN /\ result' = r.outcome
        /\ calls' = r.called
        /\ pos' = Len(r.called)
  /\ UNCHANGED <<inputs, pos2, gen, initial, total, initCalls, out, iterNo, outStart>>

fold_back ==
  /\ op = "fold_back"
  /\ result = NoResult
  /\ IF Reversible(source)
     THEN LET r == Reduce(Reversed(source.items), 1, initialState, fn, TRUE, failOn)
          IN /\ result' = r.outcome
             /\ calls' = r.called
             /\ pos' = Len(r.called)
     ELSE /\ result' = TypeError
          /\ UNCHANGED <<calls, pos>>
  /\ UNCHANGED <<inputs, pos2, gen, initial, total, initCalls, out, iterNo, outStart>>

iter ==
  /\ op = "iter"
  /\ result = NoResult
  /\ calls' = Invoked(source.items, failOn)
  /\ pos' = Len(calls')
  /\ result' = IF FirstFail(source.items, failOn) # 0 THEN Raised ELSE NoneVal
  /\ UNCHANGED <<inputs, pos2, gen, initial, total, initCalls, out, iterNo, outStart>>

\* --------------------------------------------------------------- lazy: map
\* variant: a list comprehension, which applies mapper to a finite source at once
map_comprehension ==
  /\ op = "map"
  /\ gen = "unbuilt"
  /\ gen' = "live"
  /\ calls' = IF source.kind = "inf" THEN calls ELSE Invoked(source.items, failOn)
  /\ UNCHANGED <<inputs, pos, pos2, initial, total, initCalls, out, iterNo, outStart, result>>

\* map(mapper)(source): builds the generator (mapper(x) for x in source)
map ==
  /\ op = "map"
  /\ gen = "unbuilt"
  /\ gen' = "live"
  /\ UNCHANGED <<inputs, pos, pos2, initial, total, calls, initCalls, out, iterNo, outStart, result>>

\* next() of that generator; a generator that raised or returned is finished
map_next ==
  /\ op = "map"
  /\ gen # "unbuilt"
  /\ Len(out) < MaxPulls
  /\ IF gen = "finished" \/ ~HasNext(source, pos)
     THEN /\ out' = Append(out, StopIteration)
          /\ gen' = "finished"
          /\ UNCHANGED <<pos, calls, initCalls>>
     ELSE LET x == Elem(source, pos)
          IN /\ pos' = pos + 1
             /\ initCalls' = initCalls \o InitLog(source, 1, pos)
             /\ calls' = Append(calls, x)
             /\ IF x = failOn
                THEN /\ out' = Append(out, Raised)
                     /\ gen' = "finished"
                ELSE /\ out' = Append(out, Val(Apply(fn, x)))
                     /\ gen' = gen
  /\ UNCHANGED <<inputs, pos2, initial, total, iterNo, outStart, result>>

\* ------------------------------------------------------------ lazy: filter
\* filter(predicate)(source): builds a builtins.filter object
filter ==
  /\ op = "filter"
  /\ gen = "unbuilt"
  /\ gen' = "live"
  /\ UNCHANGED <<inputs, pos, pos2, initial, total, calls, initCalls, out, iterNo, outStart, result>>

\* next() of a builtins.filter object whose source iterator consumed p
\* elements: it pulls until the predicate holds, raises or the source ends.
\* The object keeps no record of an exception.
RECURSIVE FilterNext(_, _, _, _)
FilterNext(items, p, f, fail) ==
  IF p >= Len(items) THEN [pos |-> p, called |-> <<>>, outcome |-> StopIteration]
  ELSE LET x == items[p + 1]
       IN IF x = fail THEN [pos |-> p + 1, called |-> <<x>>, outcome |-> Raised]
          ELSE IF Pred(f, x) THEN [pos |-> p + 1, called |-> <<x>>, outcome |-> Val(x)]
          ELSE LET r == FilterNext(items, p + 1, f, fail)
               IN [r EXCEPT !.called = <<x>> \o @]

filter_next ==
  /\ op = "filter"
  /\ gen # "unbuilt"
  /\ Len(out) < MaxPulls
  /\ LET r == FilterNext(source.items, pos, fn, failOn)
     IN /\ pos' = r.pos
        /\ calls' = calls \o r.called
        /\ out' = Append(out, r.outcome)
  /\ UNCHANGED <<inputs, pos2, gen, initial, total, initCalls, iterNo, outStart, result>>

\* -------------------------------------------------------------- lazy: scan
\* scan(scanner, state)(source): itertools.accumulate(source, scanner, initial=state)
scan ==
  /\ op = "scan"
  /\ gen = "unbuilt"
  /\ gen' = "live"
  /\ initial' = initialState
  /\ total' = NULL
  /\ UNCHANGED <<inputs, pos, pos2, calls, initCalls, out, iterNo, outStart, result>>

\* next() of the accumulate object: a pending initial value that is not
\* None is emitted first; otherwise one element is pulled, and it becomes
\* the total when there is none yet
scan_next ==
  /\ op = "scan"
  /\ gen # "unbuilt"
  /\ Len(out) < MaxPulls
  /\ IF initial.tag # "None"
     THEN /\ total' = initial
          /\ initial' = NoneVal
          /\ out' = Append(out, initial)
          /\ UNCHANGED <<pos, calls, initCalls>>
     ELSE IF ~HasNext(source, pos)
     THEN /\ out' = Append(out, StopIteration)
          /\ UNCHANGED <<pos, calls, initCalls, initial, total>>
     ELSE LET x == Elem(source, pos)
              r == CallBin(fn, total, Val(x), x, failOn)
          IN /\ pos' = pos + 1
             /\ initCalls' = initCalls \o InitLog(source, 1, pos)
             /\ initial' = initial
             /\ IF total.tag = "NULL"
                THEN /\ total' = Val(x)
                     /\ out' = Append(out, Val(x))
                     /\ calls' = calls
                ELSE /\ calls' = Append(calls, x)
                     /\ total' = IF r.tag = "raise" THEN total ELSE r
                     /\ out' = Append(out, r)
  /\ UNCHANGED <<inputs, pos2, gen, iterNo, outStart, result>>

\* --------------------------------------------------------------- lazy: zip
\* zip(source1)(source2): builds builtins.zip(source1, source2)
zip ==
  /\ op = "zip"
  /\ gen = "unbuilt"
  /\ gen' = "live"
  /\ UNCHANGED <<inputs, pos, pos2, initial, total, calls, initCalls, out, iterNo, outStart, result>>

\* variant: builtins.zip(..., strict=True), which rejects a longer source1
zip_next_strict ==
  /\ op = "zip"
  /\ gen # "unbuilt"
  /\ Len(out) < MaxPulls
  /\ IF ~HasNext(source, pos)
     THEN /\ out' = Append(out, StopIteration)
          /\ UNCHANGED <<pos, pos2, initCalls>>
     ELSE /\ pos' = pos + 1
          /\ IF ~HasNext(source2, pos2)
             THEN /\ out' = Append(out, ValueError)
                  /\ initCalls' = initCalls \o InitLog(source, 1, pos)
                  /\ pos2' = pos2
             ELSE /\ out' = Append(out, Val(<<Elem(source, pos), Elem(source2, pos2)>>))
                  /\ initCalls' = initCalls \o InitLog(source, 1, pos) \o InitLog(source2, 2, pos2)
                  /\ pos2' = pos2 + 1
  /\ UNCHANGED <<inputs, gen, initial, total, calls, iterNo, outStart, result>>

\* next() of the zip object: pulls from source1, then from source2, and
\* ends as soon as one of them has no element
zip_next ==
  /\ op = "zip"
  /\ gen # "unbuilt"
  /\ Len(out) < MaxPulls
  /\ IF ~HasNext(source, pos)
     THEN /\ out' = Append(out, StopIteration)
          /\ UNCHANGED <<pos, pos2, initCalls>>
     ELSE /\ pos' = pos + 1
          /\ IF ~HasNext(source2, pos2)
             THEN /\ out' = Append(out, StopIteration)
                  /\ initCalls' = initCalls \o InitLog(source, 1, pos)
                  /\ pos2' = pos2
             ELSE /\ out' = Append(out, Val(<<Elem(source, pos), Elem(source2, pos2)>>))
                  /\ initCalls' = initCalls \o InitLog(source, 1, pos) \o InitLog(source2, 2, pos2)
                  /\ pos2' = pos2 + 1
  /\ UNCHANGED <<inputs, gen, initial, total, calls, iterNo, outStart, result>>

\* ----------------------------------------------------- lazy: init_infinite
MaxIters == 2       \* iterations the consumer begins on one sequence

\* init_infinite(initializer): a generator function, so the call returns a
\* generator object and runs none of its body
init_infinite ==
  /\ op = "init_infinite"
  /\ gen = "unbuilt"
  /\ gen' = "live"
  /\ UNCHANGED <<inputs, pos, pos2, initial, total, calls, initCalls, out, iterNo, outStart, result>>

\* the consumer begins an iteration (for x in seq): iter() of a generator
\* object returns that same object, whatever it has already produced
iterate ==
  /\ op = "init_infinite"
  /\ gen # "unbuilt"
  /\ iterNo < MaxIters
  /\ iterNo' = iterNo + 1
  /\ outStart' = Len(out)
  /\ UNCHANGED <<inputs, pos, pos2, gen, initial, total, calls, initCalls, out, result>>

\* next(): the body runs to its next yield initializer(i)
init_infinite_next ==
  /\ op = "init_infinite"
  /\ iterNo >= 1
  /\ Len(out) < MaxPulls
  /\ out' = Append(out, Val(Initializer(source.init, pos)))
  /\ initCalls' = Append(initCalls, [src |-> 1, index |-> pos])
  /\ pos' = pos + 1
  /\ UNCHANGED <<inputs, pos2, gen, initial, total, calls, iterNo, outStart, result>>

Next ==
  \/ head
  \/ min
  \/ max
  \/ min_by
  \/ max_by
  \/ fold
  \/ fold_back
  \/ iter
  \/ map
  \/ map_next
  \/ filter
  \/ filter_next
  \/ scan
  \/ scan_next
  \/ zip
  \/ zip_next
  \/ init_infinite
  \/ iterate
  \/ init_infinite_next

Spec == Init /\ [][Next]_vars

\* ------------------------------------------------------------ properties
IsValue(o) == o.tag = "value"
NotStop(o) == o.tag # "StopIteration"
Values(log) == SelectSeq(log, IsValue)
Stopped == \E i \in 1 .. Len(out) : out[i] = StopIteration
Finite(s) == s.kind # "inf"

\* C1: head of init_infinite(initializer) returns initializer(0), and the
\* initializer has been invoked exactly once, on index 0.
C1_HeadPullsOne ==
  (op = "head" /\ source.kind = "inf" /\ result # NoResult) =>
    /\ result = Val(Initializer(source.init, 0))
    /\ initCalls = <<[src |-> 1, index |-> 0]>>

C1_Witness ==
  /\ op = "head"
  /\ source.kind = "inf"
  /\ source.init = "affine"
  /\ result = Val(1)
  /\ Len(initCalls) = 1

\* C2: head, min, max, min_by and max_by end in the empty-sequence error
\* (ValueError) exactly when the source yields no element.
C2_EmptySequence ==
  (op \in {"head", "min", "max", "min_by", "max_by"} /\ result # NoResult) =>
    (result = ValueError <=> ~HasNext(source, 0))

C2_Witness ==
  /\ op = "min_by"
  /\ source.items = <<>>
  /\ result = ValueError

\* C3: constructing map(f)(s) invokes f zero times; after k elements have
\* been produced f has been invoked exactly k times, on s[0..k-1] in order,
\* the i-th output is f(s[i]); a finite s gives as many outputs as it has
\* elements.
C3_MapLazy ==
  op = "map" =>
    LET k == Len(SelectSeq(out, NotStop))
        v == Len(Values(out))
    IN /\ out = <<>> => calls = <<>>
       /\ Len(calls) = k
       /\ \A i \in 1 .. k : HasNext(source, i - 1) /\ calls[i] = Elem(source, i - 1)
       /\ \A i \in 1 .. v : out[i] = Val(Apply(fn, Elem(source, i - 1)))
       /\ (Stopped /\ v = k) => (Finite(source) /\ v = Len(source.items))

C3_Witness ==
  /\ op = "map"
  /\ fn = "double"
  /\ source.items = <<1, 2, 0>>
  /\ Len(out) = 2
  /\ out[2] = Val(4)
  /\ calls = <<1, 2>>

\* folder(e0, folder(e1, ... folder(eN, state))) for the elements from i on
RECURSIVE RightNested(_, _, _, _, _)
RightNested(items, i, state, f, fail) ==
  IF i > Len(items) THEN state
  ELSE LET inner == RightNested(items, i + 1, state, f, fail)
       IN IF inner.tag = "raise" THEN Raised
          ELSE CallBin(f, Val(items[i]), inner, items[i], fail)

\* C4: on a materialized list [e0..eN], fold_back(folder, source)(state) is
\* folder(e0, folder(e1, ... folder(eN, state))), folder being applied to
\* the elements from last to first.
C4_FoldBackList ==
  (op = "fold_back" /\ source.kind = "list" /\ result # NoResult) =>
    /\ result = RightNested(source.items, 1, initialState, fn, failOn)
    /\ \A i \in 1 .. Len(calls) : calls[i] = source.items[Len(source.items) + 1 - i]
    /\ result.tag # "raise" => Len(calls) = Len(source.items)

C4_Witness ==
  /\ op = "fold_back"
  /\ source.kind = "list"
  /\ source.items = <<2, 0, 1>>
  /\ fn = "sub"
  /\ initialState = Val(0)
  /\ result = Val(3)
  /\ calls = <<1, 0, 2>>

\* C5: on a finite single-pass source (a generator, a Seq wrapper)
\* fold_back buffers the elements and returns
\* folder(e0, folder(e1, ... folder(eN, state))) instead of an error.
C5_FoldBackBuffers ==
  (op = "fold_back" /\ source.kind \in {"gen", "seq"} /\ result # NoResult) =>
    /\ result.tag # "TypeError"
    /\ result = RightNested(source.items, 1, initialState, fn, failOn)

\* C6: scan(scanner, state)(s) on a finite s of length n yields n + 1
\* values, the first being state, emitted before any element of s is
\* requested, and the i-th being fold(scanner, state) of the first i elements.
C6_ScanPrefixFolds ==
  (op = "scan" /\ failOn = NoFail) =>
    /\ Len(out) >= 1 => out[1] = initialState
    /\ Len(out) = 1 => pos = 0
    /\ (Finite(source) /\ Stopped) =>
         LET vals == SelectSeq(out, NotStop)
         IN /\ Len(vals) = Len(source.items) + 1
            /\ \A i \in 0 .. Len(source.items) :
                 vals[i + 1] = Reduce(SubSeq(source.items, 1, i), 1, initialState, fn, FALSE, failOn).outcome

\* C7: zip(a)(b) yields exactly the pairs (a_i, b_i) for i below the length
\* of the shorter source, in order, and then ends without an error.
C7_ZipShortest ==
  op = "zip" =>
    LET k == Len(Values(out))
    IN /\ \A i \in 1 .. Len(out) : out[i].tag \in {"value", "StopIteration"}
       /\ \A i \in 1 .. k : /\ HasNext(source, i - 1)
                            /\ HasNext(source2, i - 1)
                            /\ out[i] = Val(<<Elem(source, i - 1), Elem(source2, i - 1)>>)
       /\ k < Len(out) => ~(HasNext(source, k) /\ HasNext(source2, k))

C7_Witness ==
  /\ op = "zip"
  /\ source.kind = "inf"
  /\ source.init = "affine"
  /\ source2.items = <<2, 0>>
  /\ source2.kind = "gen"
  /\ out = <<Val(<<1, 2>>), Val(<<3, 0>>), StopIteration>>

\* C8: on a non-empty source min_by(projection) returns the smallest, and
\* max_by(projection) the greatest, of the projected values, not the
\* element that produced it.
C8_ProjectedExtreme ==
  (/\ op \in {"min_by", "max_by"}
   /\ result # NoResult
   /\ Len(source.items) > 0
   /\ FirstFail(source.items, failOn) = 0) =>
    /\ result.tag = "value"
    /\ \E i \in 1 .. Len(source.items) : result.val = Apply(fn, source.items[i])
    /\ \A i \in 1 .. Len(source.items) :
         IF op = "min_by" THEN result.val <= Apply(fn, source.items[i])
                          ELSE result.val >= Apply(fn, source.items[i])

C8_Witness ==
  /\ op = "max_by"
  /\ fn = "neg"
  /\ source.items = <<1, 2>>
  /\ result = Val(0 - 1)

\* C9: when the function supplied to map, filter, fold or iter raises on an
\* element, the error reaches the caller and the function is never invoked
\* on a later element, also when the consumer of a lazy output asks again.
C9_NoCallAfterRaise ==
  op \in {"map", "filter", "fold", "iter"} =>
    \A i \in 1 .. Len(calls) :
      calls[i] = failOn =>
        /\ i = Len(calls)
        /\ result = Raised \/ \E j \in 1 .. Len(out) : out[j] = Raised

\* C10: a second iteration of the sequence returned by init_infinite,
\* begun after a first one consumed k >= 1 elements, starts again with
\* initializer(0).
C10_Regenerates ==
  (op = "init_infinite" /\ iterNo = 2 /\ outStart >= 1 /\ Len(out) > outStart) =>
    out[outStart + 1] = Val(Initializer(source.init, 0))
====
